---- MODULE Spec2Model ----
(***************************************************************************)
(* The mock-interview page of the resume matcher                           *)
(* (src/frontend/src/pages/MockInterview.jsx) as a state machine, and the  *)
(* upload flow around it: the application-wide ResumeProvider              *)
(* (src/unnamed/part_002), the upload form (src/frontend/src/pages/        *)
(* Home.jsx), the result page (ResultPage.jsx) and the routes between      *)
(* them (src/unnamed/part_005, Navbar.jsx).                                *)
(*                                                                         *)
(* The state is the component's React state (useState hooks), the ref      *)
(* audioStreamRef, and the browser objects the handlers create: media      *)
(* streams and MediaRecorders ("captures"), getUserMedia requests that     *)
(* have not resolved yet, HTTP requests in flight, and the setTimeout that *)
(* clears the time-limit message.  There is one action per event handler   *)
(* or asynchronous continuation.  A handler started by a click runs with   *)
(* the state of the last render; the part of an async handler after its    *)
(* await runs later, with the values it captured before the await.         *)
(***************************************************************************)
EXTENDS Integers, Sequences, FiniteSets, Bags, TLC

VARIABLES
    mounted,              \* the component is mounted (page shown)
    questions,            \* useState(initialQuestions), never set again
    loading,              \* useState(false)
    error,                \* useState("")
    isRecording,          \* useState(false)
    mediaRecorder,        \* useState(null): id of a capture's recorder
    currentQuestionIndex, \* useState(null)
    questionTimeLeft,     \* useState(AUDIO_TIME_SECONDS)
    typedAnswer,          \* useState('')
    inputMode,            \* useState({}): index -> 'audio' | 'text'
    results,              \* useState({}): question text -> result, in key order
    finalFeedback,        \* useState(null)
    audioStreamRef,       \* useRef(null): id of a capture's stream
    captures,             \* streams and recorders created by startRecording
    pendingStarts,        \* startRecording calls waiting for getUserMedia
    inflight,             \* axios.post requests without a response yet
    issued,               \* ghost: the requests of inflight in the order they were sent
    errorTimers,          \* pending setTimeout(() => setError(""), 3000)
    route,                \* the route shown by the router, or Blank
    resumeData,           \* ResumeProvider: useState({...})
    home,                 \* Home: resume, jdFile, jdText, loading, error
    submissions           \* handleSubmit calls waiting for their responses

\* the state of the mock-interview page
interviewVars == <<mounted, questions, loading, error, isRecording, mediaRecorder,
                   currentQuestionIndex, questionTimeLeft, typedAnswer, inputMode,
                   results, finalFeedback, audioStreamRef, captures, pendingStarts,
                   inflight, issued, errorTimers>>

\* the state of the provider, the router and the upload form
appVars == <<route, resumeData, home, submissions>>

vars == <<interviewVars, appVars>>

----------------------------------------------------------------------------
(* Bounds of the model *)

MaxQuestions == 2        \* longest question list
MaxCaptures == 2         \* microphone grants (streams) in one session
MaxPendingStarts == 2    \* unresolved getUserMedia requests
MaxInFlight == 2         \* HTTP requests without a response
MaxErrorTimers == 1      \* pending setTimeout callbacks that clear the message
MaxWork == 3             \* questions plus microphone grants in one session

(* Program constants *)

AUDIO_TIME_SECONDS == 60
MaxScorePerQuestion == 10

NullIndex == -1          \* currentQuestionIndex === null
NoCapture == 0           \* mediaRecorder === null, audioStreamRef.current === null

TextNames == <<"qA", "qB", "qC", "qD", "qE">>
QuestionTexts == {TextNames[k] : k \in 1..MaxQuestions}

\* A list in which texts first occur in the order of TextNames: one list for
\* each pattern of equal and different question texts.
FirstOccurrenceOrder(l) ==
    \A i \in 1..Len(l) :
        \E k \in 1..MaxQuestions :
            /\ l[i] = TextNames[k]
            /\ \A m \in 1..(k - 1) : \E j \in 1..(i - 1) : l[j] = TextNames[m]

QuestionLists ==
    {l \in UNION {[1..n -> QuestionTexts] : n \in 0..MaxQuestions} :
        FirstOccurrenceOrder(l)}

Space == " "
TypedTexts == {<<>>, <<Space>>, <<"a">>, <<"b">>}
TranscribedText == <<"s">>
ResumeFileName == "resume.pdf"
ResumeContentText == "resume text"

\* An optional value of a response payload: <<>> is undefined, <<v>> is v.
None == <<>>
Some(v) == <<v>>

ScoreValues == {0, MaxScorePerQuestion}
FeedbackText == "fb"

\* Bodies the backend may answer /interview/evaluate_audio with.
AudioResponses ==
    {[score |-> s, feedback |-> f, individual_scores |-> is,
      individual_feedback |-> if, transcribed_text |-> TranscribedText] :
        s \in {None} \cup {Some(v) : v \in ScoreValues},
        f \in {None, Some(""), Some(FeedbackText)},
        is \in {None, Some(<<MaxScorePerQuestion>>)},
        if \in {None, Some(<<FeedbackText>>)}}

\* Bodies the backend may answer /interview/evaluate_text with.
TextResponses == {[score |-> s, feedback |-> FeedbackText] : s \in ScoreValues}

----------------------------------------------------------------------------
(* Values *)

NoError == [code |-> "", q |-> 0]
Err(code, n) == [code |-> code, q |-> n]

FreeCapture == [stream |-> "none", rec |-> "none", index |-> NullIndex]

AudioRequest(index, questionText) ==
    [kind |-> "audio", index |-> index, question |-> questionText,
     answer |-> <<>>, resume |-> ResumeFileName]

\* payload of handleTextSubmission
TextRequest(index, questionText, answer) ==
    [kind |-> "text", index |-> index, question |-> questionText,
     answer |-> answer, resume |-> ResumeContentText]

----------------------------------------------------------------------------
(* Pure helpers *)

Min(a, b) == IF a < b THEN a ELSE b

RECURSIVE TrimStart(_)
TrimStart(s) ==
    IF s # <<>> /\ Head(s) = Space THEN TrimStart(Tail(s)) ELSE s

RECURSIVE TrimEnd(_)
TrimEnd(s) ==
    IF s # <<>> /\ s[Len(s)] = Space THEN TrimEnd(SubSeq(s, 1, Len(s) - 1)) ELSE s

\* String.prototype.trim
Trim(s) == TrimEnd(TrimStart(s))

\* a || b for an optional number: 0 and undefined are falsy
OrNumber(a, b) == IF a # None /\ a[1] # 0 THEN a ELSE b

\* a || b for an optional string: "" and undefined are falsy
OrString(a, b) == IF a # None /\ a[1] # "" THEN a ELSE b

\* xs?.[0]
FirstOf(xs) == IF xs = None \/ xs[1] = <<>> THEN None ELSE Some(xs[1][1])

Indices == 0..(Len(questions) - 1)
QuestionAt(i) == questions[i + 1]

\* getMode: inputMode[qIndex] || 'audio' (also for a null index)
getMode(qIndex) ==
    IF qIndex \in DOMAIN inputMode THEN inputMode[qIndex] ELSE "audio"

\* results[q] is set
HasResult(rs, q) == \E k \in 1..Len(rs) : rs[k].q = q

ResultOf(rs, q) == rs[CHOOSE k \in 1..Len(rs) : rs[k].q = q]

\* Variant of PutResult: results kept as a list that is pushed to, so that a
\* second result for the same question text adds an entry.
PutResultPushes(rs, q, entry) == Append(rs, entry)

\* {...prev, [q]: entry}: an existing key keeps its place, a new key goes last
PutResult(rs, q, entry) ==
    IF HasResult(rs, q)
    THEN [k \in 1..Len(rs) |-> IF rs[k].q = q THEN entry ELSE rs[k]]
    ELSE Append(rs, entry)

ResultEntry(q, score, feedback, text) ==
    [q |-> q, score |-> score, feedback |-> feedback, text |-> text]

RECURSIVE SumScores(_)
SumScores(rs) == IF rs = <<>> THEN 0 ELSE Head(rs).score + SumScores(Tail(rs))

(* Math.round((x / y) * 100) for integers 0 <= x <= y, as JavaScript
   computes it: x / y and the product with 100 are binary64 operations, each
   rounded to 53 significant bits (to nearest, ties to even), and Math.round
   rounds the product to the nearest integer, halves up.  A 53-bit
   significand is kept as three limbs <<c1, c2, c3>> of value
   c1 * 2^36 + c2 * 2^18 + c3. *)
RECURSIVE Pow2(_)
Pow2(n) == IF n = 0 THEN 1 ELSE 2 * Pow2(n - 1)

Limb == Pow2(18)

\* the least e >= 1 with 2^e * x >= y: x / y lies in [2^-e, 2^(1-e))
RECURSIVE Binade(_, _)
Binade(x, y) == IF 2 * x >= y THEN 1 ELSE 1 + Binade(2 * x, y)

\* the limbs with the carries of the lower limbs added to the higher ones
Carried(t1, t2, t3) ==
    <<t1 + (t2 + t3 \div Limb) \div Limb, (t2 + t3 \div Limb) % Limb, t3 % Limb>>

\* The binary64 quotient x / y for 0 < x <= y: the significand m of
\* m * 2^-(e + 52), by long division and rounding on the remainder.
DoubleQuotient(x, y) ==
    LET e == Binade(x, y)
        a1 == Pow2(e + 16) * x
        r1 == a1 % y
        r2 == (Limb * r1) % y
        c3 == (Limb * r2) \div y
        r3 == (Limb * r2) % y
        up == IF 2 * r3 > y \/ (2 * r3 = y /\ c3 % 2 = 1) THEN 1 ELSE 0
    IN  Carried(a1 \div y, (Limb * r1) \div y, c3 + up)

\* The binary64 product of m * 2^-(e + 52) and 100: the exact product has 59
\* or 60 bits, of which the lowest 6 or 7 are rounded away.
DoubleTimes100(m) ==
    LET n == Carried(100 * m[1], 100 * m[2], 100 * m[3])
        unit == IF n[1] < Pow2(23) THEN Pow2(6) ELSE Pow2(7)
        low == n[3] % unit
        up == IF 2 * low > unit \/ (2 * low = unit /\ (n[3] \div unit) % 2 = 1)
              THEN unit ELSE 0
    IN  Carried(n[1], n[2], n[3] - low + up)

RoundPercent(x, y) ==
    IF x = 0 THEN 0
    ELSE LET e == Binade(x, y)
             product == DoubleTimes100(DoubleQuotient(x, y))
         IN  (product[1] + Pow2(e + 15)) \div Pow2(e + 16)

\* the branch of the recommendations chosen from avgScore = sum / n
Recommendation(sum, n) ==
    IF sum >= 8 * n THEN "outstanding"
    ELSE IF 2 * sum >= 13 * n THEN "very good"
    ELSE IF sum >= 4 * n THEN "solid"
    ELSE "brief"

\* Variant of Report: the per-question entries are listed newest first.
ReportNewestFirst(rs) ==
    [totalScore |-> RoundPercent(SumScores(rs), Len(rs) * MaxScorePerQuestion),
     feedback |-> Recommendation(SumScores(rs), Len(rs)),
     individual_scores |-> [k \in 1..Len(rs) |-> rs[Len(rs) + 1 - k].score],
     individual_feedback |-> [k \in 1..Len(rs) |-> rs[Len(rs) + 1 - k].feedback]]

\* The report handleFinalEvaluation computes from results
Report(rs) ==
    [totalScore |-> RoundPercent(SumScores(rs), Len(rs) * MaxScorePerQuestion),
     feedback |-> Recommendation(SumScores(rs), Len(rs)),
     individual_scores |-> [k \in 1..Len(rs) |-> rs[k].score],
     individual_feedback |-> [k \in 1..Len(rs) |-> rs[k].feedback]]

----------------------------------------------------------------------------
(* What the rendered page lets the user do (lines 362-370, 457, 463, 505) *)

isAnswered(idx) == HasResult(results, QuestionAt(idx))
isQuestionActive(idx) == isRecording /\ currentQuestionIndex = idx
isTextActive(idx) == getMode(idx) = "text" /\ currentQuestionIndex = idx
isDisabled(idx) ==
    loading \/ isAnswered(idx) \/ (isRecording /\ currentQuestionIndex # idx)
isToggleDisabled(idx) == isRecording \/ loading \/ isAnswered(idx)

textareaDisabled(idx) ==
    \/ isAnswered(idx) \/ loading \/ isRecording
    \/ (currentQuestionIndex # NullIndex /\ currentQuestionIndex # idx)

submitTextDisabled(idx) ==
    \/ isAnswered(idx) \/ loading \/ isRecording
    \/ Trim(typedAnswer) = <<>>
    \/ currentQuestionIndex # idx

finalizeDisabled ==
    loading \/ Len(questions) = 0 \/ Len(results) = 0 \/ isRecording

----------------------------------------------------------------------------
(* Browser objects *)

CaptureIds == 1..MaxCaptures

\* ids are handed out in order and never reused
FreeIds == {id \in CaptureIds : captures[id] = FreeCapture}
\* another stream may be granted within the bounds of the model
CanGrant ==
    /\ FreeIds # {}
    /\ Len(questions) + Cardinality(CaptureIds \ FreeIds) < MaxWork
NewId == CHOOSE id \in FreeIds : \A other \in FreeIds : id <= other

\* streams with a live track (the microphone is held)
OpenStreams == {id \in CaptureIds : captures[id].stream = "live"}
\* MediaRecorders in state 'recording'
StartedRecorders == {id \in CaptureIds : captures[id].rec = "recording"}

\* A state setter called on an unmounted component does nothing.
SetState(old, new) == IF mounted THEN new ELSE old

----------------------------------------------------------------------------
(* The provider, the routes and the upload form *)

MaxSubmissions == 2      \* handleSubmit calls waiting for their responses
MaxAnswered == 4         \* questions of an interview whose report is computed

Blank == "(blank)"       \* React removed the tree after an error while rendering
Routes == {"/", "/result", "/mock-interview"}

ResumeFiles == {ResumeFileName, "cv.pdf"}
JdFiles == {"jd.pdf"}
JdTexts == {<<>>, <<"j">>}

\* analysisResult of useState({...}) in ResumeProvider, and of resetAnalysis
InitialAnalysisResult ==
    [ats_score |-> None, interview_questions |-> <<>>,
     resume_content_text |-> None]

\* the argument of useState in ResumeProvider
InitialResumeData ==
    [resume |-> None, jd |-> None, matchResult |-> None,
     analysisResult |-> InitialAnalysisResult,
     isLoading |-> FALSE, error |-> None, analysisComplete |-> FALSE]

\* A body the backend may answer /analyze_resume with.
AnalysisData(qs) ==
    [ats_score |-> Some(70), interview_questions |-> qs,
     resume_content_text |-> Some(ResumeContentText)]
AnalysisResponses == {AnalysisData(qs) : qs \in QuestionLists}

\* the body of /match, and matchData when no job description was given
MatchData == [match_score |-> 50]
NoJdMatchData == [match_score |-> 0]

\* resumeData after the setResumeData call of handleSubmit
StoredAnalysis(rd, resume, jd, matchData, analysisData) ==
    [rd EXCEPT !.resume = Some(resume), !.jd = jd,
               !.matchResult = Some(matchData),
               !.analysisResult = analysisData,
               !.analysisComplete = TRUE]

\* resumeData after resetAnalysis
resetAnalysis(rd) ==
    [rd EXCEPT !.resume = None, !.jd = None, !.matchResult = None,
               !.analysisResult = InitialAnalysisResult,
               !.isLoading = FALSE, !.error = None,
               !.analysisComplete = FALSE]

\* the useState calls of Home
InitialHome ==
    [resume |-> None, jdFile |-> None, jdText |-> <<>>,
     loading |-> FALSE, error |-> None]

\* the messages handleSubmit shows
NoResumeMessage == "Please upload a resume file."
AnalysisFailedMessage == "Failed to get ATS analysis from backend"
MatchFailedMessage == "Failed to get JD match score from backend"
UnexpectedMessage == "An unexpected error occurred while processing your files."

\* jdFile || jdText
jdGiven(jdFile, jdText) == jdFile # None \/ jdText # <<>>

\* The fields handleSubmit appends to matchFormData and to analyzeFormData
\* after "resume".
jdFields(jdFile, jdText) ==
    IF jdFile # None THEN {<<"jd", jdFile[1]>>}
    ELSE IF jdText # <<>> THEN {<<"jd_text", jdText>>}
    ELSE {}

jdForContext(jdFile, jdText) ==
    IF jdFile # None THEN Some(jdFile[1])
    ELSE IF jdText # <<>> THEN Some("Pasted Job Description")
    ELSE None

\* A handleSubmit call at its await: the requests it sent, the values its
\* continuation will use, and whether the Home that made the call is still
\* the one on the page.
Submission(resume, jdFile, jdText) ==
    [resume |-> resume,
     jd |-> jdForContext(jdFile, jdText),
     jdGiven |-> jdGiven(jdFile, jdText),
     analyze |-> {<<"resume", resume>>} \cup jdFields(jdFile, jdText),
     match |-> IF jdGiven(jdFile, jdText)
               THEN Some({<<"resume", resume>>} \cup jdFields(jdFile, jdText))
               ELSE None,
     live |-> TRUE]

\* What a fetch may end with: a response with ok true, a response with ok
\* false, or a rejection.
FetchOutcomes == {"ok", "not ok", "rejected"}

----------------------------------------------------------------------------
\* The mock-interview page, opened after an analysis of ResumeFileName
Init ==
    /\ mounted = TRUE
    /\ questions \in QuestionLists
    /\ loading = FALSE
    /\ error = NoError
    /\ isRecording = FALSE
    /\ mediaRecorder = NoCapture
    /\ currentQuestionIndex = NullIndex
    /\ questionTimeLeft = AUDIO_TIME_SECONDS
    /\ typedAnswer = <<>>
    /\ inputMode = <<>>
    /\ results = <<>>
    /\ finalFeedback = None
    /\ audioStreamRef = NoCapture
    /\ captures = [id \in CaptureIds |-> FreeCapture]
    /\ pendingStarts = EmptyBag
    /\ inflight = EmptyBag
    /\ issued = <<>>
    /\ errorTimers = 0
    /\ route = "/mock-interview"
    /\ resumeData = StoredAnalysis(InitialResumeData, ResumeFileName, None,
                                   NoJdMatchData, AnalysisData(questions))
    /\ home = InitialHome
    /\ submissions = <<>>

----------------------------------------------------------------------------
(* The order of the outstanding requests. issued lists the requests of
   inflight in the order of their axios.post calls; an entry is stale once the
   response of a request sent after it, for the same question, has been
   stored in results. The program keeps no such record: issued is read by no
   guard and no assignment of a program variable. *)

Issue(req) == Append(issued, [req |-> req, stale |-> FALSE])

PositionsOf(req) == {p \in 1..Len(issued) : issued[p].req = req}

RemoveAt(seq, p) ==
    [k \in 1..(Len(seq) - 1) |-> IF k < p THEN seq[k] ELSE seq[k + 1]]

\* the response of the request at position p arrives; stored tells whether
\* it is written to results
Respond(p, stored) ==
    RemoveAt([k \in 1..Len(issued) |->
                 IF stored /\ k < p
                    /\ issued[k].req.question = issued[p].req.question
                 THEN [issued[k] EXCEPT !.stale = TRUE]
                 ELSE issued[k]], p)

----------------------------------------------------------------------------
(* Text input and mode toggle *)

\* toggleMode(qIndex), lines 69-81, behind the toggle button (line 383)
toggleMode(qIndex) ==
    /\ UNCHANGED appVars
    /\ mounted
    /\ qIndex \in Indices
    /\ ~isToggleDisabled(qIndex)
    /\ ~(loading \/ isRecording \/ HasResult(results, QuestionAt(qIndex)))
    /\ typedAnswer' = <<>>
    /\ currentQuestionIndex' = NullIndex
    /\ inputMode' =
         [k \in DOMAIN inputMode \cup {qIndex} |->
            IF k = qIndex
            THEN (IF getMode(qIndex) = "audio" THEN "text" ELSE "audio")
            ELSE inputMode[k]]
    /\ UNCHANGED <<mounted, questions, loading, error, isRecording, mediaRecorder,
                   questionTimeLeft, results, finalFeedback, audioStreamRef,
                   captures, pendingStarts, inflight, issued, errorTimers>>

\* Variant of textareaFocus: the focus moves the page on to the following
\* question, also from the last one.
textareaFocusMovesOn(idx) ==
    /\ UNCHANGED appVars
    /\ mounted
    /\ idx \in Indices
    /\ getMode(idx) = "text"
    /\ ~textareaDisabled(idx)
    /\ currentQuestionIndex # idx
    /\ currentQuestionIndex' = idx + 1
    /\ typedAnswer' = <<>>
    /\ UNCHANGED <<mounted, questions, loading, error, isRecording, mediaRecorder,
                   questionTimeLeft, inputMode, results, finalFeedback,
                   audioStreamRef, captures, pendingStarts, inflight, issued, errorTimers>>

\* textarea onFocus, lines 448-454
textareaFocus(idx) ==
    /\ UNCHANGED appVars
    /\ mounted
    /\ idx \in Indices
    /\ getMode(idx) = "text"
    /\ ~textareaDisabled(idx)
    /\ currentQuestionIndex # idx
    /\ currentQuestionIndex' = idx
    /\ typedAnswer' = <<>>
    /\ UNCHANGED <<mounted, questions, loading, error, isRecording, mediaRecorder,
                   questionTimeLeft, inputMode, results, finalFeedback,
                   audioStreamRef, captures, pendingStarts, inflight, issued, errorTimers>>

\* textarea onChange, line 447: typing into the focused text box
textareaChange(idx, value) ==
    /\ UNCHANGED appVars
    /\ mounted
    /\ idx \in Indices
    /\ getMode(idx) = "text"
    /\ ~textareaDisabled(idx)
    /\ currentQuestionIndex = idx
    /\ value # typedAnswer
    /\ typedAnswer' = value
    /\ UNCHANGED <<mounted, questions, loading, error, isRecording, mediaRecorder,
                   currentQuestionIndex, questionTimeLeft, inputMode, results,
                   finalFeedback, audioStreamRef, captures, pendingStarts,
                   inflight, issued, errorTimers>>

----------------------------------------------------------------------------
(* Text submission, lines 229-281 *)

\* handleTextSubmission up to its await, behind the submit button (line 463)
handleTextSubmission(questionIndex) ==
    /\ UNCHANGED appVars
    /\ mounted
    /\ questionIndex \in Indices
    /\ getMode(questionIndex) = "text"
    /\ ~submitTextDisabled(questionIndex)
    /\ BagCardinality(inflight) < MaxInFlight
    /\ IF currentQuestionIndex # questionIndex
       THEN /\ error' = Err("ActiveTextBox", 0)
            /\ UNCHANGED <<loading, inflight, issued>>
       ELSE IF Trim(typedAnswer) = <<>>
       THEN /\ error' = Err("TypeFirst", 0)
            /\ UNCHANGED <<loading, inflight, issued>>
       ELSE IF isRecording
       THEN /\ error' = Err("StopRecordingFirst", 0)
            /\ UNCHANGED <<loading, inflight, issued>>
       ELSE /\ loading' = TRUE
            /\ error' = NoError
            /\ inflight' = inflight (+) SetToBag(
                 {TextRequest(questionIndex, QuestionAt(questionIndex), typedAnswer)})
            /\ issued' = Issue(
                 TextRequest(questionIndex, QuestionAt(questionIndex), typedAnswer))
    /\ UNCHANGED <<mounted, questions, isRecording, mediaRecorder,
                   currentQuestionIndex, questionTimeLeft, typedAnswer, inputMode,
                   results, finalFeedback, audioStreamRef, captures,
                   pendingStarts, errorTimers>>

\* handleTextSubmission after the await, the request succeeded (lines 259-273, 279)
textEvaluated(req, data) ==
    /\ UNCHANGED appVars
    /\ BagIn(req, inflight)
    /\ req.kind = "text"
    /\ inflight' = inflight (-) SetToBag({req})
    /\ \E p \in PositionsOf(req) : issued' = Respond(p, mounted)
    /\ results' = SetState(results,
         PutResult(results, req.question,
                   ResultEntry(req.question, data.score, data.feedback, req.answer)))
    /\ typedAnswer' = SetState(typedAnswer, <<>>)
    /\ currentQuestionIndex' = SetState(currentQuestionIndex, NullIndex)
    /\ loading' = SetState(loading, FALSE)
    /\ UNCHANGED <<mounted, questions, error, isRecording, mediaRecorder,
                   questionTimeLeft, inputMode, finalFeedback, audioStreamRef,
                   captures, pendingStarts, errorTimers>>

\* Variant of textEvaluationFailed: the text box and the active index are
\* cleared on failure as they are on success.
textEvaluationFailedClearsAnswer(req) ==
    /\ UNCHANGED appVars
    /\ BagIn(req, inflight)
    /\ req.kind = "text"
    /\ inflight' = inflight (-) SetToBag({req})
    /\ \E p \in PositionsOf(req) : issued' = Respond(p, FALSE)
    /\ error' = SetState(error, Err("EvalText", req.index + 1))
    /\ loading' = SetState(loading, FALSE)
    /\ typedAnswer' = SetState(typedAnswer, <<>>)
    /\ currentQuestionIndex' = SetState(currentQuestionIndex, NullIndex)
    /\ UNCHANGED <<mounted, questions, isRecording, mediaRecorder,
                   questionTimeLeft, inputMode,
                   results, finalFeedback, audioStreamRef, captures,
                   pendingStarts, errorTimers>>

\* handleTextSubmission after the await, the request failed (lines 275-279)
textEvaluationFailed(req) ==
    /\ UNCHANGED appVars
    /\ BagIn(req, inflight)
    /\ req.kind = "text"
    /\ inflight' = inflight (-) SetToBag({req})
    /\ \E p \in PositionsOf(req) : issued' = Respond(p, FALSE)
    /\ error' = SetState(error, Err("EvalText", req.index + 1))
    /\ loading' = SetState(loading, FALSE)
    /\ UNCHANGED <<mounted, questions, isRecording, mediaRecorder,
                   currentQuestionIndex, questionTimeLeft, typedAnswer, inputMode,
                   results, finalFeedback, audioStreamRef, captures,
                   pendingStarts, errorTimers>>

----------------------------------------------------------------------------
(* Audio evaluation, lines 86-131 *)

receivedScore(data) == OrNumber(data.score, FirstOf(data.individual_scores))
receivedFeedback(data) == OrString(data.feedback, FirstOf(data.individual_feedback))

\* line 111: a required field is missing
incompleteResponse(data) ==
    receivedScore(data) = None \/ receivedFeedback(data) = None

\* sendAudioForEvaluation after the await, a response arrived (lines 105-123, 129)
audioEvaluated(req, data) ==
    /\ UNCHANGED appVars
    /\ BagIn(req, inflight)
    /\ req.kind = "audio"
    /\ inflight' = inflight (-) SetToBag({req})
    /\ \E p \in PositionsOf(req) :
           issued' = Respond(p, mounted /\ ~incompleteResponse(data))
    /\ IF incompleteResponse(data)
       THEN /\ error' = SetState(error, Err("EvalAudio", req.index + 1))
            /\ UNCHANGED results
       ELSE /\ results' = SetState(results,
                 PutResult(results, req.question,
                           ResultEntry(req.question, receivedScore(data)[1],
                                       receivedFeedback(data)[1],
                                       data.transcribed_text)))
            /\ UNCHANGED error
    /\ loading' = SetState(loading, FALSE)
    /\ UNCHANGED <<mounted, questions, isRecording, mediaRecorder,
                   currentQuestionIndex, questionTimeLeft, typedAnswer, inputMode,
                   finalFeedback, audioStreamRef, captures, pendingStarts,
                   errorTimers>>

\* Variant of audioEvaluationFailed: the failure stores an empty result for
\* the question.
audioEvaluationFailedStoresResult(req) ==
    /\ UNCHANGED appVars
    /\ BagIn(req, inflight)
    /\ req.kind = "audio"
    /\ inflight' = inflight (-) SetToBag({req})
    /\ \E p \in PositionsOf(req) : issued' = Respond(p, mounted)
    /\ error' = SetState(error, Err("EvalAudio", req.index + 1))
    /\ loading' = SetState(loading, FALSE)
    /\ results' = SetState(results,
         PutResult(results, req.question,
                   ResultEntry(req.question, 0, "", <<>>)))
    /\ UNCHANGED <<mounted, questions, isRecording, mediaRecorder,
                   currentQuestionIndex, questionTimeLeft, typedAnswer, inputMode,
                   finalFeedback, audioStreamRef, captures,
                   pendingStarts, errorTimers>>

\* sendAudioForEvaluation after the await, the request failed (lines 125-129)
audioEvaluationFailed(req) ==
    /\ UNCHANGED appVars
    /\ BagIn(req, inflight)
    /\ req.kind = "audio"
    /\ inflight' = inflight (-) SetToBag({req})
    /\ \E p \in PositionsOf(req) : issued' = Respond(p, FALSE)
    /\ error' = SetState(error, Err("EvalAudio", req.index + 1))
    /\ loading' = SetState(loading, FALSE)
    /\ UNCHANGED <<mounted, questions, isRecording, mediaRecorder,
                   currentQuestionIndex, questionTimeLeft, typedAnswer, inputMode,
                   results, finalFeedback, audioStreamRef, captures,
                   pendingStarts, errorTimers>>

----------------------------------------------------------------------------
(* Recording, lines 134-200 *)

\* Start button (lines 395-403, not the active question): setTypedAnswer('')
\* and startRecording(index) up to its await of getUserMedia
startRecording(index) ==
    /\ UNCHANGED appVars
    /\ mounted
    /\ index \in Indices
    /\ getMode(index) = "audio"
    /\ ~isQuestionActive(index)
    /\ ~isDisabled(index)
    /\ BagCardinality(pendingStarts) < MaxPendingStarts
    /\ typedAnswer' = <<>>
    /\ IF getMode(index) # "audio"
       THEN /\ error' = Err("ModeIsText", 0)
            /\ UNCHANGED pendingStarts
       ELSE IF isRecording \/ loading
       THEN UNCHANGED <<error, pendingStarts>>
       ELSE /\ pendingStarts' = pendingStarts (+) SetToBag({index})
            /\ UNCHANGED error
    /\ UNCHANGED <<mounted, questions, loading, isRecording, mediaRecorder,
                   currentQuestionIndex, questionTimeLeft, inputMode, results,
                   finalFeedback, audioStreamRef, captures, inflight, issued, errorTimers>>

\* getUserMedia rejects: permission denied or no device (lines 196-199)
microphoneDenied(index) ==
    /\ UNCHANGED appVars
    /\ BagIn(index, pendingStarts)
    /\ pendingStarts' = pendingStarts (-) SetToBag({index})
    /\ error' = SetState(error, Err("Microphone", 0))
    /\ UNCHANGED <<mounted, questions, loading, isRecording, mediaRecorder,
                   currentQuestionIndex, questionTimeLeft, typedAnswer, inputMode,
                   results, finalFeedback, audioStreamRef, captures, inflight, issued,
                   errorTimers>>

\* Variant of recordingStarted: the text box is cleared when the recording
\* starts instead of when the button is clicked.
recordingStartedClearsText(index) ==
    /\ UNCHANGED appVars
    /\ BagIn(index, pendingStarts)
    /\ CanGrant
    /\ pendingStarts' = pendingStarts (-) SetToBag({index})
    /\ audioStreamRef' = NewId
    /\ mediaRecorder' = SetState(mediaRecorder, NewId)
    /\ captures' = [captures EXCEPT ![NewId] =
                       [stream |-> "live", rec |-> "recording", index |-> index]]
    /\ currentQuestionIndex' = SetState(currentQuestionIndex, index)
    /\ questionTimeLeft' = SetState(questionTimeLeft, AUDIO_TIME_SECONDS)
    /\ isRecording' = SetState(isRecording, TRUE)
    /\ error' = SetState(error, NoError)
    /\ typedAnswer' = SetState(typedAnswer, <<>>)
    /\ UNCHANGED <<mounted, questions, loading, inputMode, results,
                   finalFeedback, inflight, issued, errorTimers>>

\* getUserMedia resolves and the recorder starts (lines 164-194)
recordingStarted(index) ==
    /\ UNCHANGED appVars
    /\ BagIn(index, pendingStarts)
    /\ CanGrant
    /\ pendingStarts' = pendingStarts (-) SetToBag({index})
    /\ audioStreamRef' = NewId
    /\ mediaRecorder' = SetState(mediaRecorder, NewId)
    /\ captures' = [captures EXCEPT ![NewId] =
                       [stream |-> "live", rec |-> "recording", index |-> index]]
    /\ currentQuestionIndex' = SetState(currentQuestionIndex, index)
    /\ questionTimeLeft' = SetState(questionTimeLeft, AUDIO_TIME_SECONDS)
    /\ isRecording' = SetState(isRecording, TRUE)
    /\ error' = SetState(error, NoError)
    /\ UNCHANGED <<mounted, questions, loading, typedAnswer, inputMode, results,
                   finalFeedback, inflight, issued, errorTimers>>

\* getUserMedia resolves, then new MediaRecorder(...) throws (lines 164-167, 196-199)
recorderConstructionFailed(index) ==
    /\ UNCHANGED appVars
    /\ BagIn(index, pendingStarts)
    /\ CanGrant
    /\ pendingStarts' = pendingStarts (-) SetToBag({index})
    /\ audioStreamRef' = NewId
    /\ captures' = [captures EXCEPT ![NewId] =
                       [stream |-> "live", rec |-> "none", index |-> index]]
    /\ error' = SetState(error, Err("Microphone", 0))
    /\ UNCHANGED <<mounted, questions, loading, isRecording, mediaRecorder,
                   currentQuestionIndex, questionTimeLeft, typedAnswer, inputMode,
                   results, finalFeedback, inflight, issued, errorTimers>>

\* getUserMedia resolves, then recorder.start() throws (lines 164-192, 196-199)
recorderStartFailed(index) ==
    /\ UNCHANGED appVars
    /\ BagIn(index, pendingStarts)
    /\ CanGrant
    /\ pendingStarts' = pendingStarts (-) SetToBag({index})
    /\ audioStreamRef' = NewId
    /\ mediaRecorder' = SetState(mediaRecorder, NewId)
    /\ captures' = [captures EXCEPT ![NewId] =
                       [stream |-> "live", rec |-> "inactive", index |-> index]]
    /\ currentQuestionIndex' = SetState(currentQuestionIndex, index)
    /\ questionTimeLeft' = SetState(questionTimeLeft, AUDIO_TIME_SECONDS)
    /\ error' = SetState(error, Err("Microphone", 0))
    /\ UNCHANGED <<mounted, questions, loading, isRecording, typedAnswer,
                   inputMode, results, finalFeedback, inflight, issued, errorTimers>>

\* Variant of stopRecording: setIsRecording(false) is left out.
stopRecordingKeepsFlag(index, isTimeout) ==
    LET entered == mediaRecorder # NoCapture /\ isRecording
                   /\ currentQuestionIndex = index
        released == IF audioStreamRef # NoCapture
                    THEN [captures EXCEPT ![audioStreamRef].stream = "ended"]
                    ELSE captures
        stops == captures[mediaRecorder].rec = "recording"
    IN  IF ~entered
        THEN [captures |-> captures, audioStreamRef |-> audioStreamRef,
              error |-> error, errorTimers |-> errorTimers,
              isRecording |-> isRecording,
              currentQuestionIndex |-> currentQuestionIndex,
              questionTimeLeft |-> questionTimeLeft, threw |-> FALSE]
        ELSE [captures |->
                IF stops
                THEN [released EXCEPT ![mediaRecorder].rec = "stopping"]
                ELSE released,
              audioStreamRef |-> NoCapture,
              error |-> IF isTimeout THEN Err("TimeLimit", index + 1) ELSE error,
              errorTimers |-> IF isTimeout THEN errorTimers + 1 ELSE errorTimers,
              isRecording |-> isRecording,
              currentQuestionIndex |->
                IF stops THEN NullIndex ELSE currentQuestionIndex,
              questionTimeLeft |->
                IF stops THEN AUDIO_TIME_SECONDS ELSE questionTimeLeft,
              threw |-> ~stops]

\* What stopRecording(index, isTimeout) leaves behind (lines 134-152).
\* mediaRecorder.stop() throws InvalidStateError on a recorder that is not
\* recording; the statements after it are then skipped ("threw").
stopRecording(index, isTimeout) ==
    LET entered == mediaRecorder # NoCapture /\ isRecording
                   /\ currentQuestionIndex = index
        released == IF audioStreamRef # NoCapture
                    THEN [captures EXCEPT ![audioStreamRef].stream = "ended"]
                    ELSE captures
        stops == captures[mediaRecorder].rec = "recording"
    IN  IF ~entered
        THEN [captures |-> captures, audioStreamRef |-> audioStreamRef,
              error |-> error, errorTimers |-> errorTimers,
              isRecording |-> isRecording,
              currentQuestionIndex |-> currentQuestionIndex,
              questionTimeLeft |-> questionTimeLeft, threw |-> FALSE]
        ELSE [captures |->
                IF stops
                THEN [released EXCEPT ![mediaRecorder].rec = "stopping"]
                ELSE released,
              audioStreamRef |-> NoCapture,
              error |-> IF isTimeout THEN Err("TimeLimit", index + 1) ELSE error,
              errorTimers |-> IF isTimeout THEN errorTimers + 1 ELSE errorTimers,
              isRecording |-> IF stops THEN FALSE ELSE isRecording,
              currentQuestionIndex |->
                IF stops THEN NullIndex ELSE currentQuestionIndex,
              questionTimeLeft |->
                IF stops THEN AUDIO_TIME_SECONDS ELSE questionTimeLeft,
              threw |-> ~stops]

\* Stop button (lines 395-397, the active question): stopRecording(idx)
stopClicked(idx) ==
    /\ UNCHANGED appVars
    /\ mounted
    /\ idx \in Indices
    /\ getMode(idx) = "audio"
    /\ isQuestionActive(idx)
    /\ ~isDisabled(idx)
    /\ LET after == stopRecording(idx, FALSE)
       IN  /\ captures' = after.captures
           /\ audioStreamRef' = after.audioStreamRef
           /\ error' = after.error
           /\ errorTimers' = after.errorTimers
           /\ isRecording' = after.isRecording
           /\ currentQuestionIndex' = after.currentQuestionIndex
           /\ questionTimeLeft' = after.questionTimeLeft
    /\ UNCHANGED <<mounted, questions, loading, mediaRecorder, typedAnswer,
                   inputMode, results, finalFeedback, pendingStarts, inflight, issued>>

\* Variant of startRecordingCall: the check of isRecording and loading (line
\* 160) is left out.
startRecordingCallUnguarded(index) ==
    /\ UNCHANGED appVars
    /\ mounted
    /\ index \in Indices
    /\ BagCardinality(pendingStarts) < MaxPendingStarts
    /\ IF getMode(index) # "audio"
       THEN /\ error' = Err("ModeIsText", 0)
            /\ UNCHANGED pendingStarts
       ELSE /\ pendingStarts' = pendingStarts (+) SetToBag({index})
            /\ UNCHANGED error
    /\ UNCHANGED <<mounted, questions, loading, isRecording, mediaRecorder,
                   currentQuestionIndex, questionTimeLeft, typedAnswer, inputMode,
                   results, finalFeedback, audioStreamRef, captures, inflight,
                   issued, errorTimers>>

\* A call of startRecording(index) up to its await (lines 155-163), made in
\* any state of the page, not only through the record button.
startRecordingCall(index) ==
    /\ UNCHANGED appVars
    /\ mounted
    /\ index \in Indices
    /\ BagCardinality(pendingStarts) < MaxPendingStarts
    /\ IF getMode(index) # "audio"
       THEN /\ error' = Err("ModeIsText", 0)
            /\ UNCHANGED pendingStarts
       ELSE IF isRecording \/ loading
       THEN UNCHANGED <<error, pendingStarts>>
       ELSE /\ pendingStarts' = pendingStarts (+) SetToBag({index})
            /\ UNCHANGED error
    /\ UNCHANGED <<mounted, questions, loading, isRecording, mediaRecorder,
                   currentQuestionIndex, questionTimeLeft, typedAnswer, inputMode,
                   results, finalFeedback, audioStreamRef, captures, inflight,
                   issued, errorTimers>>

\* Variant of stopRecordingCall: the recording of the active question is
\* stopped whatever index is passed.
stopRecordingCallAnyIndex(index) ==
    /\ UNCHANGED appVars
    /\ mounted
    /\ index \in Indices
    /\ LET after == stopRecording(currentQuestionIndex, FALSE)
       IN  /\ captures' = after.captures
           /\ audioStreamRef' = after.audioStreamRef
           /\ error' = after.error
           /\ errorTimers' = after.errorTimers
           /\ isRecording' = after.isRecording
           /\ currentQuestionIndex' = after.currentQuestionIndex
           /\ questionTimeLeft' = after.questionTimeLeft
    /\ UNCHANGED <<mounted, questions, loading, mediaRecorder, typedAnswer,
                   inputMode, results, finalFeedback, pendingStarts, inflight,
                   issued>>

\* A call of stopRecording(index) (lines 134-152), made in any state of the
\* page and for any question, not only through the stop button.
stopRecordingCall(index) ==
    /\ UNCHANGED appVars
    /\ mounted
    /\ index \in Indices
    /\ LET after == stopRecording(index, FALSE)
       IN  /\ captures' = after.captures
           /\ audioStreamRef' = after.audioStreamRef
           /\ error' = after.error
           /\ errorTimers' = after.errorTimers
           /\ isRecording' = after.isRecording
           /\ currentQuestionIndex' = after.currentQuestionIndex
           /\ questionTimeLeft' = after.questionTimeLeft
    /\ UNCHANGED <<mounted, questions, loading, mediaRecorder, typedAnswer,
                   inputMode, results, finalFeedback, pendingStarts, inflight,
                   issued>>

\* recorder.onstop (lines 176-186), the stop event of a stopped recorder.
\* chunks holds the data of the dataavailable event, if it had any.
recorderStopped(id, hasData) ==
    /\ UNCHANGED appVars
    /\ id \in CaptureIds
    /\ captures[id].rec = "stopping"
    /\ captures' = [captures EXCEPT ![id].rec = "inactive"]
    /\ IF hasData
       THEN \* sendAudioForEvaluation(chunks, index) up to its await (lines 87-99)
            /\ BagCardinality(inflight) < MaxInFlight
            /\ loading' = SetState(loading, TRUE)
            /\ error' = SetState(error, NoError)
            /\ inflight' = inflight (+) SetToBag(
                 {AudioRequest(captures[id].index, QuestionAt(captures[id].index))})
            /\ issued' = Issue(
                 AudioRequest(captures[id].index, QuestionAt(captures[id].index)))
       ELSE /\ error' = SetState(error, Err("NoAudioData", 0))
            /\ loading' = SetState(loading, FALSE)
            /\ UNCHANGED <<inflight, issued>>
    /\ UNCHANGED <<mounted, questions, isRecording, mediaRecorder,
                   currentQuestionIndex, questionTimeLeft, typedAnswer, inputMode,
                   results, finalFeedback, audioStreamRef, pendingStarts,
                   errorTimers>>

----------------------------------------------------------------------------
(* Per-question timer effect, lines 203-225 *)

timerRuns ==
    /\ getMode(currentQuestionIndex) = "audio"
    /\ isRecording
    /\ currentQuestionIndex # NullIndex
    /\ questionTimeLeft > 0

\* lines 222-224: the value the effect leaves after a render
timerReset(recording, index, timeLeft) ==
    IF (~recording \/ getMode(index) # "audio") /\ timeLeft # AUDIO_TIME_SECONDS
    THEN AUDIO_TIME_SECONDS
    ELSE timeLeft

\* One run of the interval callback (lines 208-217) and the render after it.
\* If mediaRecorder.stop() throws inside the state updater, the render fails
\* and React unmounts the page, which has no error boundary.
tick ==
    /\ UNCHANGED appVars
    /\ mounted
    /\ timerRuns
    /\ IF questionTimeLeft <= 1
       THEN LET after == stopRecording(currentQuestionIndex, TRUE)
            IN  /\ errorTimers < MaxErrorTimers
                /\ captures' = after.captures
                /\ audioStreamRef' = after.audioStreamRef
                /\ errorTimers' = after.errorTimers
                /\ IF after.threw
                   THEN /\ mounted' = FALSE
                        /\ UNCHANGED <<error, isRecording, currentQuestionIndex,
                                       questionTimeLeft>>
                   ELSE /\ error' = after.error
                        /\ isRecording' = after.isRecording
                        /\ currentQuestionIndex' = after.currentQuestionIndex
                        /\ questionTimeLeft' =
                             timerReset(after.isRecording,
                                        after.currentQuestionIndex, 0)
                        /\ UNCHANGED mounted
       ELSE /\ questionTimeLeft' = questionTimeLeft - 1
            /\ UNCHANGED <<mounted, captures, audioStreamRef, errorTimers, error,
                           isRecording, currentQuestionIndex>>
    /\ UNCHANGED <<questions, loading, mediaRecorder, typedAnswer, inputMode,
                   results, finalFeedback, pendingStarts, inflight, issued>>

\* setTimeout(() => setError(""), 3000) of line 144 fires
errorTimerFired ==
    /\ UNCHANGED appVars
    /\ errorTimers > 0
    /\ errorTimers' = errorTimers - 1
    /\ error' = SetState(error, NoError)
    /\ UNCHANGED <<mounted, questions, loading, isRecording, mediaRecorder,
                   currentQuestionIndex, questionTimeLeft, typedAnswer, inputMode,
                   results, finalFeedback, audioStreamRef, captures,
                   pendingStarts, inflight, issued>>

----------------------------------------------------------------------------
(* Final evaluation, lines 284-328, behind the finalize button (line 505) *)

handleFinalEvaluation ==
    /\ UNCHANGED appVars
    /\ mounted
    /\ ~finalizeDisabled
    /\ IF Len(results) = 0
       THEN /\ error' = Err("AnswerOneFirst", 0)
            /\ UNCHANGED finalFeedback
       ELSE /\ finalFeedback' = Some(Report(results))
            /\ UNCHANGED error
    /\ UNCHANGED <<mounted, questions, loading, isRecording, mediaRecorder,
                   currentQuestionIndex, questionTimeLeft, typedAnswer, inputMode,
                   results, audioStreamRef, captures, pendingStarts, inflight, issued,
                   errorTimers>>

----------------------------------------------------------------------------
(* Leaving the page: the component unmounts; the cleanup of the timer effect
   (line 219) clears the interval, nothing else runs *)

----------------------------------------------------------------------------
(* Routes.  A page that is left loses its state; a page that is entered
   starts from the arguments of its useState calls.  The browser's objects
   (streams, recorders, requests, timers) are not the page's and stay. *)

\* MockInterview is mounted under the provider value rd.
mountInterview(rd) ==
    /\ mounted' = TRUE
    /\ questions' = rd.analysisResult.interview_questions
    /\ loading' = FALSE
    /\ error' = NoError
    /\ isRecording' = FALSE
    /\ mediaRecorder' = NoCapture
    /\ currentQuestionIndex' = NullIndex
    /\ questionTimeLeft' = AUDIO_TIME_SECONDS
    /\ typedAnswer' = <<>>
    /\ inputMode' = <<>>
    /\ results' = <<>>
    /\ finalFeedback' = None
    /\ audioStreamRef' = NoCapture
    /\ UNCHANGED <<captures, pendingStarts, inflight, issued, errorTimers>>

unmountInterview ==
    /\ mounted' = FALSE
    /\ UNCHANGED <<questions, loading, error, isRecording, mediaRecorder,
                   currentQuestionIndex, questionTimeLeft, typedAnswer, inputMode,
                   results, finalFeedback, audioStreamRef, captures,
                   pendingStarts, inflight, issued, errorTimers>>

\* The handleSubmit calls of a Home that has been unmounted: their setLoading
\* and setError calls do nothing.
Orphaned(subs) == [p \in DOMAIN subs |-> [subs[p] EXCEPT !.live = FALSE]]

\* navigate(r), or a click on a link to r.  rd is the provider's value, h
\* the state of Home and subs the outstanding handleSubmit calls at the
\* render that follows.
Navigate(r, rd, h, subs) ==
    /\ route' = r
    /\ home' = IF route = "/" /\ r # "/" THEN InitialHome ELSE h
    /\ submissions' = IF route = "/" /\ r # "/" THEN Orphaned(subs) ELSE subs
    /\ IF r = "/mock-interview" /\ route # "/mock-interview"
       THEN mountInterview(rd)
       ELSE IF route = "/mock-interview" /\ r # "/mock-interview"
            THEN unmountInterview
            ELSE UNCHANGED interviewVars

\* a NavLink of the Navbar
navLink(r) ==
    /\ route \in Routes
    /\ r # route
    /\ Navigate(r, resumeData, home, submissions)
    /\ UNCHANGED resumeData

\* ResultPage: the button "Start New Analysis"
startNewAnalysis ==
    /\ route = "/result"
    /\ resumeData.analysisComplete
    /\ Navigate("/", resumeData, home, submissions)
    /\ UNCHANGED resumeData

\* ResultPage: the button "Go to Upload Page" of the page without results
goToUploadPage ==
    /\ route = "/result"
    /\ ~resumeData.analysisComplete
    /\ Navigate("/", resumeData, home, submissions)
    /\ UNCHANGED resumeData

\* ResultPage: the button "Start Mock Interview"
startMockInterview ==
    /\ route = "/result"
    /\ resumeData.analysisComplete
    /\ Navigate("/mock-interview", resumeData, home, submissions)
    /\ UNCHANGED resumeData

\* The user leaves the mock-interview page, here by the link "Home"; the
\* page is unmounted in the same way whichever route is entered.
unmount ==
    /\ mounted
    /\ navLink("/")

----------------------------------------------------------------------------
(* The upload form (Home) *)

\* onChange of the resume input; f is e.target.files[0]
resumeChanged(f) ==
    /\ route = "/"
    /\ home' = [home EXCEPT !.resume = f]
    /\ UNCHANGED <<route, resumeData, submissions, interviewVars>>

\* onChange of the job-description file input
jdFileChanged(f) ==
    /\ route = "/"
    /\ home' = [home EXCEPT !.jdFile = f, !.jdText = <<>>]
    /\ UNCHANGED <<route, resumeData, submissions, interviewVars>>

\* onChange of the job-description textarea
jdTextChanged(value) ==
    /\ route = "/"
    /\ home' = [home EXCEPT !.jdText = value, !.jdFile = None]
    /\ UNCHANGED <<route, resumeData, submissions, interviewVars>>

\* Variant of handleSubmitCall: resetAnalysis runs before the validation.
handleSubmitCallResetsFirst ==
    /\ route = "/"
    /\ resumeData' = resetAnalysis(resumeData)
    /\ IF home.resume = None
       THEN /\ home' = [home EXCEPT !.error = Some(NoResumeMessage)]
            /\ UNCHANGED submissions
       ELSE /\ Len(submissions) < MaxSubmissions
            /\ home' = [home EXCEPT !.error = None, !.loading = TRUE]
            /\ submissions' =
                   Append(submissions,
                          Submission(home.resume[1], home.jdFile, home.jdText))
    /\ UNCHANGED <<route, interviewVars>>

\* handleSubmit up to its await, called in any state of the form
handleSubmitCall ==
    /\ route = "/"
    /\ IF home.resume = None
       THEN /\ home' = [home EXCEPT !.error = Some(NoResumeMessage)]
            /\ UNCHANGED <<resumeData, submissions>>
       ELSE /\ Len(submissions) < MaxSubmissions
            /\ home' = [home EXCEPT !.error = None, !.loading = TRUE]
            /\ resumeData' = resetAnalysis(resumeData)
            /\ submissions' =
                   Append(submissions,
                          Submission(home.resume[1], home.jdFile, home.jdText))
    /\ UNCHANGED <<route, interviewVars>>

\* The form is submitted with its button, which is disabled while loading and
\* without a resume.
handleSubmit ==
    /\ ~(home.loading \/ home.resume = None)
    /\ handleSubmitCall

\* The message of the error handleSubmit catches.
SubmitErrorMessage(a, m) ==
    IF "rejected" \in {a, m} THEN UnexpectedMessage
    ELSE IF a # "ok" THEN AnalysisFailedMessage
    ELSE MatchFailedMessage

\* handleSubmit after its await: Promise.all has settled, with a the outcome
\* of /analyze_resume, m that of /match and d the body of /analyze_resume.
\* ResultPage calls its hooks after the return of the page without results:
\* when analysisComplete becomes true while that page is shown, React finds
\* more hooks than in the previous render and removes the tree.
submitSettled(p, a, m, d) ==
    LET s == submissions[p]
        rest == [q \in 1..(Len(submissions) - 1) |->
                    IF q < p THEN submissions[q] ELSE submissions[q + 1]]
        stored == StoredAnalysis(resumeData, s.resume, s.jd,
                                 IF s.jdGiven THEN MatchData ELSE NoJdMatchData, d)
    IN  /\ p \in DOMAIN submissions
        /\ ~s.jdGiven => m = "ok"
        /\ IF route = Blank
           THEN /\ submissions' = rest
                /\ UNCHANGED <<route, resumeData, home, interviewVars>>
           ELSE IF a = "ok" /\ m = "ok"
           THEN /\ resumeData' = stored
                /\ IF route = "/result" /\ ~resumeData.analysisComplete
                   THEN /\ route' = Blank
                        /\ submissions' = rest
                        /\ UNCHANGED <<home, interviewVars>>
                   ELSE Navigate("/result", stored, home, rest)
           ELSE /\ home' = IF s.live
                           THEN [home EXCEPT !.error = Some(SubmitErrorMessage(a, m)),
                                             !.loading = FALSE]
                           ELSE home
                /\ submissions' = rest
                /\ UNCHANGED <<route, resumeData, interviewVars>>

----------------------------------------------------------------------------
Next ==
    \/ \E i \in Indices : toggleMode(i)
    \/ \E i \in Indices : textareaFocus(i)
    \/ \E i \in Indices, v \in TypedTexts : textareaChange(i, v)
    \/ \E i \in Indices : handleTextSubmission(i)
    \/ \E r \in BagToSet(inflight), d \in TextResponses : textEvaluated(r, d)
    \/ \E r \in BagToSet(inflight) : textEvaluationFailed(r)
    \/ \E r \in BagToSet(inflight), d \in AudioResponses : audioEvaluated(r, d)
    \/ \E r \in BagToSet(inflight) : audioEvaluationFailed(r)
    \/ \E i \in Indices : startRecording(i)
    \/ \E i \in BagToSet(pendingStarts) : microphoneDenied(i)
    \/ \E i \in BagToSet(pendingStarts) : recordingStarted(i)
    \/ \E i \in BagToSet(pendingStarts) : recorderConstructionFailed(i)
    \/ \E i \in BagToSet(pendingStarts) : recorderStartFailed(i)
    \/ \E i \in Indices : stopClicked(i)
    \/ \E id \in CaptureIds, d \in BOOLEAN : recorderStopped(id, d)
    \/ tick
    \/ errorTimerFired
    \/ handleFinalEvaluation

\* The interview page while it is shown
Spec == Init /\ [][Next]_vars

\* The interview page, which the user may leave at any time
NextOrLeave == Next \/ unmount
SpecLeave == Init /\ [][NextOrLeave]_vars

\* The page with startRecording and stopRecording called in any state
NextOrCall ==
    \/ Next
    \/ \E i \in Indices : startRecordingCall(i)
    \/ \E i \in Indices : stopRecordingCall(i)
SpecCalls == Init /\ [][NextOrCall]_vars

\* The interval of the timer effect fires every second while it is set.
SpecFair == Init /\ [][Next]_vars /\ WF_vars(tick)

\* The application from its start on the upload page.  The steps of the
\* mock-interview page are those of Spec; here the page is only opened and
\* left.
InitApp ==
    /\ mounted = FALSE
    /\ questions = <<>>
    /\ loading = FALSE
    /\ error = NoError
    /\ isRecording = FALSE
    /\ mediaRecorder = NoCapture
    /\ currentQuestionIndex = NullIndex
    /\ questionTimeLeft = AUDIO_TIME_SECONDS
    /\ typedAnswer = <<>>
    /\ inputMode = <<>>
    /\ results = <<>>
    /\ finalFeedback = None
    /\ audioStreamRef = NoCapture
    /\ captures = [id \in CaptureIds |-> FreeCapture]
    /\ pendingStarts = EmptyBag
    /\ inflight = EmptyBag
    /\ issued = <<>>
    /\ errorTimers = 0
    /\ route = "/"
    /\ resumeData = InitialResumeData
    /\ home = InitialHome
    /\ submissions = <<>>

NextApp ==
    \/ \E r \in Routes : navLink(r)
    \/ startNewAnalysis
    \/ goToUploadPage
    \/ startMockInterview
    \/ \E f \in {None} \cup {Some(x) : x \in ResumeFiles} : resumeChanged(f)
    \/ \E f \in {None} \cup {Some(x) : x \in JdFiles} : jdFileChanged(f)
    \/ \E v \in JdTexts : jdTextChanged(v)
    \/ handleSubmit
    \/ \E p \in DOMAIN submissions, a \in FetchOutcomes, m \in FetchOutcomes,
          d \in AnalysisResponses : submitSettled(p, a, m, d)
SpecApp == InitApp /\ [][NextApp]_vars

\* The application with handleSubmit called in any state of the form
NextAppOrCall == NextApp \/ handleSubmitCall
SpecAppCalls == InitApp /\ [][NextAppOrCall]_vars

\* The report of an interview in which every question has been answered: the
\* page with one stored result per question, each score any integer from 0
\* to MaxScorePerQuestion, and the button "Finalize Interview" clicked.
InitScored ==
    /\ mounted = TRUE
    /\ questions \in {[k \in 1..n |-> TextNames[k]] : n \in 1..MaxAnswered}
    /\ \E scores \in [1..Len(questions) -> 0..MaxScorePerQuestion] :
           results = [k \in 1..Len(questions) |->
                         ResultEntry(questions[k], scores[k], FeedbackText, <<"a">>)]
    /\ loading = FALSE
    /\ error = NoError
    /\ isRecording = FALSE
    /\ mediaRecorder = NoCapture
    /\ currentQuestionIndex = NullIndex
    /\ questionTimeLeft = AUDIO_TIME_SECONDS
    /\ typedAnswer = <<>>
    /\ inputMode = <<>>
    /\ finalFeedback = None
    /\ audioStreamRef = NoCapture
    /\ captures = [id \in CaptureIds |-> FreeCapture]
    /\ pendingStarts = EmptyBag
    /\ inflight = EmptyBag
    /\ issued = <<>>
    /\ errorTimers = 0
    /\ route = "/mock-interview"
    /\ resumeData = StoredAnalysis(InitialResumeData, ResumeFileName, None,
                                   NoJdMatchData, AnalysisData(questions))
    /\ home = InitialHome
    /\ submissions = <<>>

SpecScored == InitScored /\ [][handleFinalEvaluation]_vars

----------------------------------------------------------------------------
(* Well-formedness of the model *)

Errors ==
    {NoError} \cup
    {Err(c, 0) : c \in {"ActiveTextBox", "TypeFirst", "StopRecordingFirst",
                        "ModeIsText", "Microphone", "NoAudioData",
                        "AnswerOneFirst"}} \cup
    {Err(c, n) : c \in {"EvalText", "EvalAudio", "TimeLimit"},
                 n \in 1..MaxQuestions}

TypeOK ==
    /\ mounted \in BOOLEAN /\ loading \in BOOLEAN /\ isRecording \in BOOLEAN
    /\ questions \in QuestionLists
    /\ error \in Errors
    /\ mediaRecorder \in CaptureIds \cup {NoCapture}
    /\ audioStreamRef \in CaptureIds \cup {NoCapture}
    /\ currentQuestionIndex \in Indices \cup {NullIndex}
    /\ questionTimeLeft \in 0..AUDIO_TIME_SECONDS
    /\ typedAnswer \in TypedTexts
    /\ DOMAIN inputMode \subseteq Indices
    /\ \A i \in DOMAIN inputMode : inputMode[i] \in {"audio", "text"}
    /\ \A k \in 1..Len(results) : results[k].q \in QuestionTexts
    /\ Len(finalFeedback) <= 1
    /\ BagCardinality(pendingStarts) <= MaxPendingStarts
    /\ BagCardinality(inflight) <= MaxInFlight
    /\ Len(issued) = BagCardinality(inflight)
    /\ \A p \in 1..Len(issued) :
           CopiesIn(issued[p].req, inflight) = Cardinality(PositionsOf(issued[p].req))
    /\ errorTimers \in 0..MaxErrorTimers

\* The reset branch of the timer effect (lines 222-224) has nothing to do
\* after any action of the model: every action leaves the value it would set.
TimerEffectSettled ==
    mounted =>
        timerReset(isRecording, currentQuestionIndex, questionTimeLeft)
            = questionTimeLeft

----------------------------------------------------------------------------
(* Claims *)

\* C1: at most one Recording is active at a time per session: never more
\* than one open media stream or started MediaRecorder, for every
\* interleaving of start, stop, tick and the microphone grant.
C1_SingleRecording ==
    mounted =>
        /\ Cardinality(OpenStreams) <= 1
        /\ Cardinality(StartedRecorders) <= 1

\* C2: the device stream is always released on stop or on error: whenever
\* no recording is active and no start is pending, no acquired microphone
\* stream is still open.
C2_StreamReleased ==
    (mounted /\ ~isRecording /\ StartedRecorders = {}
        /\ pendingStarts = EmptyBag)
    => OpenStreams = {}

\* requests in flight for the question at index i
RequestsFor(i) ==
    {r \in BagToSet(inflight) : r.index = i}
InFlightFor(i) ==
    LET rs == RequestsFor(i)
        RECURSIVE count(_)
        count(S) == IF S = {} THEN 0
                    ELSE LET r == CHOOSE x \in S : TRUE
                         IN  CopiesIn(r, inflight) + count(S \ {r})
    IN  count(rs)

\* C3: at most one transcription/evaluation request is in flight per
\* question; a second one for the same question is never sent.
C3_SingleInFlightPerQuestion ==
    mounted => \A i \in Indices : InFlightFor(i) <= 1

\* the tick of the countdown that reaches zero
TimeoutTick == questionTimeLeft <= 1 /\ tick

\* C4 (as claimed): when the countdown reaches zero it triggers a forced
\* finalization, so that the session Report exists after that tick.
C4_TimeoutFinalizes ==
    [][TimeoutTick => finalFeedback' # None]_vars

\* C4 (amended): when the countdown reaches zero the timer calls
\* stopRecording for the active question once and does not finalize: the
\* report is left as it was, the recorder in mediaRecorder (if it is
\* recording) is stopped, no other recorder is touched, the recording state
\* is cleared with the time-limit message shown, and the timer then does not
\* run (no negative count, no further decrement, no second trigger); it runs
\* again only when a later startRecording call has got its stream and set the
\* active question.
C4_TimeoutStopsRecordingOnce ==
    [][/\ TimeoutTick =>
            /\ finalFeedback' = finalFeedback
            /\ \A id \in CaptureIds \ {mediaRecorder} :
                   captures'[id].rec = captures[id].rec
            /\ captures[mediaRecorder].rec = "recording" =>
                   /\ captures'[mediaRecorder].rec = "stopping"
                   /\ ~isRecording'
                   /\ error' = Err("TimeLimit", currentQuestionIndex + 1)
            /\ questionTimeLeft' \in 0..AUDIO_TIME_SECONDS
            /\ ~(mounted' /\ timerRuns')
       /\ (mounted /\ ~timerRuns /\ mounted' /\ timerRuns') =>
            \E i \in Indices : recordingStarted(i) \/ recorderStartFailed(i)
      ]_vars

\* C4 witness: a recording has just been stopped by the countdown and no
\* report exists.
C4_Witness ==
    /\ mounted /\ ~isRecording
    /\ error.code = "TimeLimit"
    /\ mediaRecorder # NoCapture
    /\ captures[mediaRecorder].rec = "stopping"
    /\ questionTimeLeft = AUDIO_TIME_SECONDS
    /\ finalFeedback = None

\* C5: once a report exists, a later finalize call is ignored: the stored
\* Report never changes again.
C5_ReportImmutable ==
    [][finalFeedback # None => finalFeedback' = finalFeedback]_vars

\* distinct question texts that have a result (Object.keys(results))
AnsweredTexts == {QuestionAt(i) : i \in {j \in Indices : isAnswered(j)}}

\* C6 (as claimed): the number of per-question entries of a report equals
\* the number of questions of the session.
C6_ReportCoversAllQuestions ==
    finalFeedback # None =>
        /\ Len(finalFeedback[1].individual_scores) = Len(questions)
        /\ Len(finalFeedback[1].individual_feedback) = Len(questions)

\* C6 (amended): for every finalize call, the report's per-question score
\* and feedback sequences have one entry for each answered question text,
\* at least one and at most questions.length.
C6_ReportCoversAnsweredQuestions ==
    [][handleFinalEvaluation =>
        /\ finalFeedback' # None
        /\ Len(finalFeedback'[1].individual_scores) = Cardinality(AnsweredTexts)
        /\ Len(finalFeedback'[1].individual_feedback) = Cardinality(AnsweredTexts)
        /\ Cardinality(AnsweredTexts) >= 1
        /\ Cardinality(AnsweredTexts) <= Len(questions)
      ]_vars

\* C6 witness: a report with one entry for a session of two questions.
C6_Witness ==
    /\ Len(questions) = 2
    /\ finalFeedback # None
    /\ Len(finalFeedback[1].individual_scores) = 1
    /\ Len(results) = 1

Placeholder == "No answer provided."

\* C7 (as claimed): finalize builds one entry per question, in question
\* order; an answered question's entry is its result and an unanswered
\* question's entry is the placeholder.
C7_EntryPerQuestionWithPlaceholder ==
    [][handleFinalEvaluation =>
        /\ finalFeedback' # None
        /\ \A i \in Indices :
             /\ i + 1 <= Len(finalFeedback'[1].individual_feedback)
             /\ finalFeedback'[1].individual_feedback[i + 1] =
                  IF isAnswered(i)
                  THEN ResultOf(results, QuestionAt(i)).feedback
                  ELSE Placeholder
      ]_vars

\* C7 (amended): finalize builds the per-question entries from the answered
\* questions only, in the order in which the questions were first answered
\* (a question keeps its place in results when it is answered again, a newly
\* answered one goes last); an unanswered question has no entry and no
\* placeholder.
C7_EntriesInAnswerOrder ==
    [][/\ \A k \in 1..Len(results) :
            k <= Len(results') /\ results'[k].q = results[k].q
       /\ handleFinalEvaluation =>
            /\ finalFeedback' # None
            /\ Len(finalFeedback'[1].individual_scores) = Len(results)
            /\ Len(finalFeedback'[1].individual_feedback) = Len(results)
            /\ \A k \in 1..Len(results) :
                 /\ finalFeedback'[1].individual_scores[k] = results[k].score
                 /\ finalFeedback'[1].individual_feedback[k] = results[k].feedback
            /\ \A i \in Indices :
                 ~isAnswered(i) =>
                   Len(finalFeedback'[1].individual_feedback) < Len(questions)
      ]_vars

\* C7 witness: two questions, only the second answered, by typing; the
\* report has that one entry.
C7_Witness ==
    /\ questions = <<"qA", "qB">>
    /\ finalFeedback # None
    /\ Len(results) = 1
    /\ results[1].q = "qB"
    /\ results[1].text = <<"a">>
    /\ finalFeedback[1].individual_scores = <<results[1].score>>
    /\ finalFeedback[1].individual_feedback = <<results[1].feedback>>

\* C8: when an audio-evaluation request fails, the stored results are
\* unchanged (so an unanswered question stays unanswered), an error message
\* is shown, loading is false again and no report is produced.
C8_AudioFailureKeepsAnswers ==
    [][\A r \in BagToSet(inflight) :
        (mounted /\ audioEvaluationFailed(r)) =>
            /\ results' = results
            /\ AnsweredTexts' = AnsweredTexts
            /\ error' = Err("EvalAudio", r.index + 1)
            /\ ~loading'
            /\ finalFeedback' = finalFeedback
      ]_vars

\* C8 witness: an audio evaluation has failed for an unanswered question.
C8_Witness ==
    /\ mounted
    /\ error.code = "EvalAudio"
    /\ ~isAnswered(error.q - 1)
    /\ ~loading
    /\ inflight = EmptyBag
    /\ finalFeedback = None

\* C9: when the text-evaluation request fails, the typed answer, the active
\* question index and the recorded results are unchanged and an error is
\* shown; if the text box still holds what was submitted, the submit button
\* is enabled again and a submit sends the same payload.
C9_TextFailureKeepsAnswerForRetry ==
    [][\A r \in BagToSet(inflight) :
        (mounted /\ textEvaluationFailed(r)) =>
            /\ typedAnswer' = typedAnswer
            /\ currentQuestionIndex' = currentQuestionIndex
            /\ results' = results
            /\ error' = Err("EvalText", r.index + 1)
            /\ ~loading'
            /\ (/\ typedAnswer = r.answer
                /\ currentQuestionIndex = r.index
                /\ ~isRecording
                /\ ~isAnswered(r.index)) =>
                   /\ ~submitTextDisabled(r.index)'
                   /\ TextRequest(r.index, QuestionAt(r.index), typedAnswer') = r
      ]_vars

\* C9 witness: a text evaluation has failed and the same answer can be
\* submitted again.
C9_Witness ==
    /\ mounted
    /\ error.code = "EvalText"
    /\ currentQuestionIndex = error.q - 1
    /\ typedAnswer = <<"a">>
    /\ inflight = EmptyBag
    /\ ~submitTextDisabled(currentQuestionIndex)

\* C10: once the report exists (status Reported) the session is no longer
\* editable: no further answer is accepted and no further evaluation request
\* is issued.
C10_ReportedIsTerminal ==
    [][finalFeedback # None =>
        /\ results' = results
        /\ \A r \in BagToSet(inflight') :
               CopiesIn(r, inflight') <= CopiesIn(r, inflight)
      ]_vars

\* C11: after the page is left (the component is unmounted), no stream track
\* is still live and the countdown interval does not run; this covers leaving
\* while a recording is active or a microphone grant is pending.
C11_UnmountReleasesStream ==
    ~mounted => (OpenStreams = {} /\ ~ENABLED tick)

\* every recorded result is still recorded, under the same question text
ResultsKept ==
    \A k \in 1..Len(results) :
        k <= Len(results') /\ results'[k].q = results[k].q

\* the typed text is stored as the text of a result by this step
TypedTextStored ==
    \E k \in 1..Len(results') :
        /\ results'[k].text = typedAnswer
        /\ (k > Len(results) \/ results[k] # results'[k])

\* C12 (as claimed): text the user has entered is never cleared to empty
\* (unless the user empties the box or the text is stored as the answer), and
\* a recorded result is never removed.
C12_NothingEnteredIsCleared ==
    [][/\ ResultsKept
       /\ (typedAnswer # <<>> /\ typedAnswer' = <<>>) =>
            \/ \E i \in Indices : textareaChange(i, <<>>)
            \/ TypedTextStored
      ]_vars

\* C12 (amended): a recorded result is never removed, only overwritten. The
\* typed text is one draft shared by all questions; it is cleared only when
\* the user empties the box, when a text submission succeeds (the submitted
\* text is stored; the box is cleared whatever it holds by then), when a
\* question's input mode is toggled, when another text box is focused, or
\* when the record button is clicked.
C12_DraftClearedOnlyByListedSteps ==
    [][/\ ResultsKept
       /\ (typedAnswer # <<>> /\ typedAnswer' = <<>>) =>
            \/ \E i \in Indices : textareaChange(i, <<>>)
            \/ \E r \in BagToSet(inflight), d \in TextResponses :
                   textEvaluated(r, d)
            \/ \E i \in Indices : toggleMode(i)
            \/ \E i \in Indices : textareaFocus(i)
            \/ \E i \in Indices : startRecording(i)
      ]_vars

\* C12 witness: one answer is recorded, text is typed for another question
\* and that question's mode toggle, which clears the text, is enabled.
C12_Witness ==
    /\ mounted
    /\ Len(results) = 1
    /\ typedAnswer = <<"a">>
    /\ currentQuestionIndex # NullIndex
    /\ ~isToggleDisabled(currentQuestionIndex)

\* C13: answers are stored per question index: a step that marks question i
\* answered leaves the answered flag of every other index unchanged (also
\* when two questions have the same text), and the number of stored answers
\* never exceeds questions.length.
C13_StoredPerIndex ==
    [][/\ \A i \in Indices :
            (~isAnswered(i) /\ isAnswered(i)') =>
                \A j \in Indices \ {i} : isAnswered(j)' = isAnswered(j)
       /\ Len(results') <= Len(questions)
      ]_vars

\* C14: under fair countdown ticks, every recording that starts is
\* eventually stopped, whatever else happens in the meantime.
C14_RecordingEventuallyStopped ==
    \A id \in CaptureIds :
        (captures[id].rec = "recording") ~> (captures[id].rec # "recording")

\* A recording whose question is in text mode: no interval is set (line 207),
\* no stop button is rendered and every other control is disabled.
RecordingWithoutCountdown(id) ==
    /\ mounted /\ isRecording /\ mediaRecorder = id
    /\ captures[id].rec = "recording"
    /\ getMode(captures[id].index) = "text"
    /\ currentQuestionIndex \in {NullIndex, captures[id].index}
    /\ pendingStarts = EmptyBag

\* No step of the page ends such a recording: the behaviour that violates
\* C14 stops there because the program does, not because of a bound.
RecordingWithoutCountdownStays ==
    [][\A id \in CaptureIds :
        RecordingWithoutCountdown(id) => RecordingWithoutCountdown(id)']_vars

\* C15: the countdown is a single monotonic decrement without negative
\* counts: questionTimeLeft is always in 0..AUDIO_TIME_SECONDS, a tick above
\* the last second lowers it by exactly 1, it never increases while a
\* recording stays active, and ticks occur only while a recording is active.
C15_MonotonicCountdown ==
    [][/\ questionTimeLeft \in 0..AUDIO_TIME_SECONDS
       /\ questionTimeLeft' \in 0..AUDIO_TIME_SECONDS
       /\ (tick /\ questionTimeLeft > 1) =>
             questionTimeLeft' = questionTimeLeft - 1
       /\ tick => (isRecording /\ StartedRecorders # {})
       /\ (isRecording /\ isRecording') =>
             questionTimeLeft' <= questionTimeLeft
      ]_vars

\* the response of a stale request arrives in this step
StaleResponded ==
    \E p \in 1..Len(issued) :
        /\ issued[p].stale
        /\ (issued' = Respond(p, TRUE) \/ issued' = Respond(p, FALSE))

\* C16: results are applied in the order their requests were issued: when
\* the response of a request sent later for the same question has been
\* stored, the response of the earlier request never overwrites it.
C16_NoStaleOverwrite ==
    [][StaleResponded => results' = results]_vars

\* C17: when getUserMedia rejects, the recording state is untouched (no
\* MediaRecorder, no active index, no stream, no countdown started, no
\* request) and an error message is set; when the start succeeds, the page
\* is recording with exactly one open stream.
C17_StartFailsIdleOrSucceedsWithOneStream ==
    [][\A i \in Indices :
        /\ (mounted /\ microphoneDenied(i)) =>
              /\ UNCHANGED <<isRecording, mediaRecorder, currentQuestionIndex,
                             questionTimeLeft, captures, audioStreamRef,
                             inflight, results>>
              /\ (~isRecording => ~timerRuns')
              /\ error' = Err("Microphone", 0)
        /\ (mounted /\ recordingStarted(i)) =>
              /\ isRecording'
              /\ Cardinality(OpenStreams') = 1
              /\ Cardinality(StartedRecorders') = 1
      ]_vars

\* C20: an audio-evaluation response is incomplete exactly when its score or
\* its feedback is missing: then results are unchanged and an error is
\* shown; a response with a score (0 included) and a feedback string is
\* recorded as the question's result and marks the question answered.
C20_IncompleteExactlyWhenFieldMissing ==
    [][\A r \in BagToSet(inflight), d \in AudioResponses :
        (mounted /\ audioEvaluated(r, d)) =>
            IF d.score = None \/ d.feedback = None
            THEN /\ results' = results
                 /\ error' = Err("EvalAudio", r.index + 1)
            ELSE /\ HasResult(results', r.question)
                 /\ ResultOf(results', r.question).score = d.score[1]
                 /\ ResultOf(results', r.question).feedback = d.feedback[1]
      ]_vars

\* C18: a call of startRecording while isRecording is true, for any question
\* index, requests no stream, creates no MediaRecorder and leaves
\* isRecording, the active question index, the countdown and the results
\* unchanged.
C18_StartWhileRecordingIsNoOp ==
    [][\A i \in Indices :
        (isRecording /\ startRecordingCall(i)) =>
            UNCHANGED <<pendingStarts, captures, audioStreamRef, mediaRecorder,
                        isRecording, currentQuestionIndex, questionTimeLeft,
                        results, inflight>>
      ]_vars

\* C18 witness: startRecording was called for a text-mode question while a
\* recording was running (the call set its error and nothing else).
C18_Witness ==
    /\ mounted /\ isRecording
    /\ error.code = "ModeIsText"
    /\ Cardinality(OpenStreams) = 1
    /\ pendingStarts = EmptyBag

\* C19: a call of stopRecording while no recording is active, or for a
\* question other than the one being recorded, changes no state and sends
\* no request.
C19_StopWhileIdleIsNoOp ==
    [][\A i \in Indices :
        (/\ stopRecordingCall(i)
         /\ ~(mediaRecorder # NoCapture /\ isRecording
              /\ currentQuestionIndex = i)) =>
            UNCHANGED vars
      ]_vars

\* C19 witness: question 1 is being recorded and there is a second question,
\* for which stopRecording can be called.
C19_Witness ==
    /\ mounted /\ isRecording
    /\ currentQuestionIndex = 0
    /\ Len(questions) = 2
    /\ ENABLED stopRecordingCall(1)
    /\ captures[mediaRecorder].rec = "recording"

----------------------------------------------------------------------------
(* C21: a step that triggers a new analysis (the button "Start New Analysis"
   of the result page, or the submission of the upload form) leaves
   resumeData at its initial values, so that neither the result page nor the
   mock-interview page can show the previous analysis. *)
C21_NewAnalysisResets ==
    [][(startNewAnalysis \/ handleSubmit) => resumeData' = InitialResumeData]_vars

\* The half of C21 that the code keeps: a submitted form resets resumeData.
C21_SubmitResets ==
    [][handleSubmit => resumeData' = InitialResumeData]_vars

----------------------------------------------------------------------------
\* round(100 * sum / (10 * n)) in exact arithmetic, halves up
C22_Normalised(sum, n) ==
    (200 * sum + MaxScorePerQuestion * n) \div (2 * MaxScorePerQuestion * n)

(* C22: for answered questions with integer scores from 0 to 10 the report's
   totalScore is round(100 * sum / (10 * answeredCount)), it lies between 0
   and 100, and the scores kept in the report are the raw values. *)
C22_TotalScoreIsNormalisedSum ==
    finalFeedback # None =>
        /\ finalFeedback[1].totalScore =
               C22_Normalised(SumScores(results), Len(results))
        /\ finalFeedback[1].totalScore \in 0..100
        /\ finalFeedback[1].individual_scores =
               [k \in 1..Len(results) |-> results[k].score]

\* What the report keeps of C22: the range, the raw scores, and a total that
\* is at most one below the rounded quotient.
C22_TotalScoreWithinOne ==
    finalFeedback # None =>
        /\ finalFeedback[1].totalScore \in 0..100
        /\ finalFeedback[1].individual_scores =
               [k \in 1..Len(results) |-> results[k].score]
        /\ C22_Normalised(SumScores(results), Len(results))
               - finalFeedback[1].totalScore \in {0, 1}

----------------------------------------------------------------------------
\* the answer after appending text to it: joined by one space, trimmed
C23_Appended(answer, text) == Trim(answer \o <<Space>> \o text)

(* C23: a transcription received for a question that already has a stored
   answer extends that answer: the stored text becomes the old text, one
   space and the new transcription, trimmed. *)
C23_SecondTranscriptionExtends ==
    [][\A r \in BagToSet(inflight), d \in AudioResponses :
           (/\ audioEvaluated(r, d)
            /\ mounted
            /\ ~incompleteResponse(d)
            /\ HasResult(results, r.question))
           => ResultOf(results', r.question).text =
                  C23_Appended(ResultOf(results, r.question).text,
                               d.transcribed_text)]_vars

----------------------------------------------------------------------------
(* C24: the page keeps a current question that starts at index 0 and always
   stays within 0..questions.length-1 (next() and previous() being no-ops at
   the ends). *)
C24_CurrentIndexFromZeroInRange ==
    (mounted /\ questions # <<>>) => currentQuestionIndex \in Indices

(* C24 as the code has it: there is no next() or previous(); the active index
   is null or the index of a question, and the progress the page shows, the
   number of answered questions out of questions.length, never exceeds 1 and
   never decreases. *)
C24_ActiveIndexAndProgress ==
    /\ [](currentQuestionIndex \in Indices \cup {NullIndex})
    /\ [](Len(results) <= Len(questions))
    /\ [][Len(results') >= Len(results)]_vars

\* every question is answered (progress 1) while a question is active
C24_Witness ==
    /\ questions # <<>>
    /\ Len(results) = Len(questions)
    /\ currentQuestionIndex \in Indices

----------------------------------------------------------------------------
(* C25: whenever a recording is active, the active question index is set, it
   is the index of the question being recorded, and that question is in
   audio mode. *)
C25_RecordingHasActiveAudioQuestion ==
    (mounted /\ isRecording) =>
        /\ currentQuestionIndex \in Indices
        /\ getMode(currentQuestionIndex) = "audio"
        /\ \A id \in StartedRecorders : captures[id].index = currentQuestionIndex

----------------------------------------------------------------------------
(* C26: loading is true in every state in which an evaluation request is in
   flight. *)
C26_LoadingWhileInFlight ==
    (mounted /\ inflight # EmptyBag) => loading

\* The second half of C26: once no request is in flight, loading is false.
C26_LoadingFalseWhenIdle ==
    (mounted /\ inflight = EmptyBag /\ ~(\E id \in CaptureIds : captures[id].rec = "stopping"))
        => ~loading

----------------------------------------------------------------------------
(* C27: once results holds an entry for a question, no later step changes
   that entry, and no evaluation request is issued for the question again. *)
C27_AnsweredIsFinal ==
    [][mounted =>
        \A q \in QuestionTexts :
            HasResult(results, q) =>
                /\ HasResult(results', q)
                /\ ResultOf(results', q) = ResultOf(results, q)
                /\ \A r \in BagToSet(inflight') :
                       r.question = q =>
                           CopiesIn(r, inflight') <= CopiesIn(r, inflight)]_vars

----------------------------------------------------------------------------
\* What C28 says of the step in which handleSubmit continues after its
\* await, with a and m the outcomes of /analyze_resume and /match.
C28_Outcome(a, m) ==
    IF a = "ok" /\ m = "ok"
    THEN /\ resumeData'.analysisComplete
         /\ route' = "/result"
    ELSE /\ route' = route
         /\ home'.error # None
         /\ resumeData' = InitialResumeData
         /\ ~home'.loading

(* C28: handleSubmit sets analysisComplete and navigates to /result only when
   the analysis request and, with a job description, the match request
   succeeded; when either fails an error is shown, there is no navigation,
   resumeData stays reset with analysisComplete false, and loading is false
   again. *)
C28_ResultsOnlyAfterSuccess ==
    [][\A p \in DOMAIN submissions, a \in FetchOutcomes, m \in FetchOutcomes,
          d \in AnalysisResponses :
           (route # Blank /\ submitSettled(p, a, m, d)) => C28_Outcome(a, m)]_vars

\* C28 holds for a submission whose form is still on the page when the
\* responses arrive.
C28_UndisturbedSubmission ==
    [][\A p \in DOMAIN submissions, a \in FetchOutcomes, m \in FetchOutcomes,
          d \in AnalysisResponses :
           (/\ route = "/"
            /\ submissions[p].live
            /\ submitSettled(p, a, m, d)) => C28_Outcome(a, m)]_vars

----------------------------------------------------------------------------

\* handleTextSubmission(i, ...) may send its request: i is the active text
\* box, the typed answer is not blank and no recording is active
C29_Accepted(i) ==
    /\ isTextActive(i)
    /\ Trim(typedAnswer) # <<>>
    /\ ~isRecording

\* A text request is sent only by an accepted submission, with the typed
\* answer; the submit button admits no other call of handleTextSubmission.
C29_SentOnlyWhenAccepted ==
    [][\A i \in Indices, answer \in TypedTexts :
           LET r == TextRequest(i, QuestionAt(i), answer)
           IN  CopiesIn(r, inflight') > CopiesIn(r, inflight) =>
                   /\ \E j \in Indices :
                          QuestionAt(j) = QuestionAt(i) /\ C29_Accepted(j)
                   /\ answer = typedAnswer]_vars

\* The success of a text request stores the typed text under the text of the
\* submitted question, and clears the typed answer and the active index.
C29_SuccessStoresUnderText ==
    [][\A r \in BagToSet(inflight), d \in TextResponses :
           (mounted /\ textEvaluated(r, d)) =>
               /\ results' = PutResult(results, r.question,
                                 ResultEntry(r.question, d.score, d.feedback, r.answer))
               /\ typedAnswer' = <<>>
               /\ currentQuestionIndex' = NullIndex]_vars

(* C29: a text answer is sent only when the submitted question is the active
   text box, the typed answer is not blank after trimming and no recording is
   active; on success exactly that question's result is stored with the
   typed text, and the typed answer and the active index are cleared. *)
C29_TextSubmission ==
    [][/\ \A i \in Indices :
              handleTextSubmission(i) =>
                  /\ C29_Accepted(i)
                  /\ inflight' = inflight (+) SetToBag(
                         {TextRequest(i, QuestionAt(i), typedAnswer)})
       /\ \A r \in BagToSet(inflight), d \in TextResponses :
              (mounted /\ textEvaluated(r, d)) =>
                  /\ HasResult(results', QuestionAt(r.index))
                  /\ ResultOf(results', QuestionAt(r.index)).text = r.answer
                  /\ typedAnswer' = <<>>
                  /\ currentQuestionIndex' = NullIndex
                  /\ \A j \in Indices \ {r.index} :
                         /\ HasResult(results', QuestionAt(j))
                                = HasResult(results, QuestionAt(j))
                         /\ HasResult(results, QuestionAt(j)) =>
                                ResultOf(results', QuestionAt(j))
                                    = ResultOf(results, QuestionAt(j))]_vars

----------------------------------------------------------------------------
\* the job-description fields of a FormData
C30_JdFieldsOf(form) == {f \in form : f[1] \in {"jd", "jd_text"}}

(* C30: handleSubmit without a resume file only sets the error message: no
   request is sent, loading is not set, and resumeData, with the results of
   a previous analysis and analysisComplete, is unchanged.  /match is called
   only for a submission with a job-description file or text, and with one of
   the two, never both. *)
C30_RejectedWithoutResume ==
    /\ [][(home.resume = None /\ handleSubmitCall) =>
              /\ home'.error = Some(NoResumeMessage)
              /\ home'.loading = home.loading
              /\ UNCHANGED <<submissions, resumeData, route>>]_vars
    /\ [](\A p \in DOMAIN submissions :
              /\ submissions[p].match # None <=> submissions[p].jd # None
              /\ submissions[p].match # None =>
                     Cardinality(C30_JdFieldsOf(submissions[p].match[1])) = 1
              /\ Cardinality(C30_JdFieldsOf(submissions[p].analyze)) <= 1)
    /\ [](home.jdFile = None \/ home.jdText = <<>>)

\* a submission without a resume has been rejected while the results of a
\* previous analysis are in resumeData
C30_Witness ==
    /\ route = "/"
    /\ home.resume = None
    /\ home.error = Some(NoResumeMessage)
    /\ resumeData.analysisComplete
    /\ submissions = <<>>

====
